---- MODULE Spec2Model ----
(***************************************************************************)
(* The assistant widget of the portfolio page: callGroqAPI, the chat form  *)
(* submit handler, the suggestion-button handler and the persona switch,   *)
(* in the three variants the repository holds:                             *)
(*   "A"  src/script.js lines 1-977                                        *)
(*   "B"  src/script.js lines 979-1786                                     *)
(*   "P"  src/unnamed/part_000                                             *)
(* Time is counted in units of 100 ms; setTimeout callbacks are kept in    *)
(* `timers` in creation order with the time they still have to wait, and   *)
(* time advances from one due callback to the next; user events and        *)
(* responses may arrive before or after any callback that is due.          *)
(* A fetch to the completion endpoint is an entry of `requests` until the  *)
(* response (or the failure) arrives; the code after the await then runs   *)
(* to its next setTimeout or to its end in one step.                       *)
(***************************************************************************)
EXTENDS Integers, Sequences, FiniteSets, TLC

VARIABLES
  variant,              \* which of the three scripts is loaded
  GROQ_API_KEY,         \* "" when absent
  keyLoad,              \* "pending" while loadAPIKey awaits env.txt, else "done"
  conversationHistory,  \* sequence of turns
  messageCount,
  isHumanMode,
  chatMessages,         \* children of #chatMessages, in document order
  chatInputDisabled,    \* chatInput.disabled
  chatSuggestions,      \* labels of the buttons inside #chatSuggestions
  timers,               \* pending setTimeout callbacks
  requests,             \* fetches to GROQ_API_URL that have not settled
  nextId,               \* next DOM element identity
  turnSeq,              \* number of turns ever pushed to the history
  events,               \* user events so far
  pace,                 \* "free": the user acts at any moment;
                        \* "patient": only once nothing is pending
  callCount,            \* number of callGroqAPI calls made
  fetchCount,           \* number of fetches issued to GROQ_API_URL
  lastReturn,           \* what the last callGroqAPI call that returned gave
  localStorageOK,       \* FALSE when localStorage.getItem / setItem throw
  storedKey,            \* localStorage 'groq_api_key', << >> when absent
  hostname,             \* window.location.hostname
  envTxt,               \* what a fetch of env.txt is answered with
  fragments,            \* ApiConfig._p1 ... _p12
  themeToggle,          \* whether the page has the .theme-toggle button
  ran,                  \* the start-up function that has been run, or "none"
  runOutcome,           \* what that function returned, or how it failed
  fetchedURLs,          \* the URLs that function fetched
  limit,                \* throttle(func, limit): the interval
  inThrottle,           \* the flag of the throttled function's closure
  resetTimers,          \* pending setTimeout(() => (inThrottle = false), limit)
  clock,                \* the time
  callLog,              \* the calls of the throttled function so far
  clearedAt,            \* turnSeq when a switch last emptied the history
  formInputs,           \* the contact form's [data-form-input] fields
  requiredInputs,       \* the fields that carry the required attribute
  formBtnDisabled,      \* formBtn.disabled
  debounceTimer,        \* time left of debouncedValidate's timer, -1 when none
  sendTimers            \* time left of each pending simulated submission

vars == << variant, GROQ_API_KEY, keyLoad, conversationHistory, messageCount,
           isHumanMode, chatMessages, chatInputDisabled, chatSuggestions,
           timers, requests, nextId, turnSeq, events, pace, callCount,
           fetchCount, lastReturn, localStorageOK, storedKey, hostname, envTxt,
           fragments, themeToggle, ran, runOutcome, fetchedURLs, limit,
           inThrottle, resetTimers, clock, callLog, clearedAt, formInputs,
           requiredInputs, formBtnDisabled, debounceTimer, sendTimers >>

\* the page around the widget: the key-value store, the location, env.txt,
\* the embedded configuration, and the start-up function under study
page == << localStorageOK, storedKey, hostname, envTxt, fragments, themeToggle,
           ran, runOutcome, fetchedURLs, limit, inThrottle, resetTimers, clock,
           callLog, formInputs, requiredInputs, formBtnDisabled, debounceTimer,
           sendTimers >>

\* what the listeners other than the switch handlers leave alone
side == << page, clearedAt >>

(***************************************************************************)
(* Bounds                                                                  *)
(***************************************************************************)
\* user events in a session where the user may act at any moment
MaxEvents == 2
\* user events in a session where the user waits for the widget to settle
MaxTurns == 7

(***************************************************************************)
(* Inputs                                                                  *)
(***************************************************************************)
Variants == {"A", "B", "P"}
TypedTexts == {"hello"}
AIReplies == {"ai reply"}
\* "badbody": a 2xx body from which choices[0].message cannot be read;
\* "nocontent": a 2xx body whose choices[0].message has no content
Outcomes == {"ok", "non2xx", "non2xx_nojson", "neterr", "badbody", "nocontent"}

\* the value undefined, and the text an element shows when it is given it
JsUndefined == "<undefined>"
UndefinedText == "undefined"
Shown(text) == IF text = JsUndefined THEN UndefinedText ELSE text
KeySources == {"env", "ls", "none"}

(***************************************************************************)
(* Fixed texts                                                             *)
(***************************************************************************)
SwitchToHuman == "Switch to Human"
BackToAssistant == "Back to Assistant Bot"

NoCredentialMsg == "I appreciate your interest! For real-time AI responses, please contact Awais directly"

TroubleMsg(v) ==
  IF v = "A" THEN "I'm having trouble connecting right now."
  ELSE "Having trouble connecting"

OopsMsg == "Oops! Connection issue."

HistoryBound(v) == IF v = "A" THEN 10 ELSE 12

ContactThreshold(v) == IF v = "A" THEN 3 ELSE 5

AssistantSuggestions(v) ==
  IF v = "A" THEN {"Tell me about Awais", "What's his expertise?", SwitchToHuman}
  ELSE {"Tell me about Awais", "What's his expertise?", "Need project help?"}

HumanSuggestions(v) ==
  IF v = "A" THEN {"Got a project idea?", "Want to collaborate?", BackToAssistant}
  ELSE {"Got a project idea", "Want to collaborate?", BackToAssistant}

\* mutant: the page also starts with a 'Back to Assistant Bot' button
InitialSuggestionsWithBack ==
  {"Tell me about Awais", "What's his expertise?", SwitchToHuman, BackToAssistant}

\* the buttons the page starts with: the assistant set that variant A itself
\* puts back after every reply; every variant's listener handles its
\* 'Switch to Human' button
InitialSuggestions == {"Tell me about Awais", "What's his expertise?", SwitchToHuman}

(***************************************************************************)
(* Helpers on sequences and on the message list                            *)
(***************************************************************************)
LastN(s, n) == IF Len(s) > n THEN SubSeq(s, Len(s) - n + 1, Len(s)) ELSE s

RemoveById(s, id) == SelectSeq(s, LAMBDA e : e.id # id)

Turn(role, content, ps, seq, human) ==
  [role |-> role, content |-> content, ps |-> ps, seq |-> seq, human |-> human]

Element(id, sender, kind, text, ps, re) ==
  [id |-> id, sender |-> sender, kind |-> kind, text |-> text, ps |-> ps, re |-> re]

Timer(kind, rem, text, ps, typing, re, ok) ==
  [kind |-> kind, rem |-> rem, text |-> text, ps |-> ps, typing |-> typing,
   re |-> re, ok |-> ok]

Request(origin, text, typing, re, body) ==
  [origin |-> origin, text |-> text, typing |-> typing, re |-> re, body |-> body]

Returned(text, result, ps, fetched, outcome, origin) ==
  [text |-> text, result |-> result, ps |-> ps, fetched |-> fetched,
   outcome |-> outcome, origin |-> origin]

NoReturn == Returned("", "", FALSE, FALSE, "none", "none")

SystemTurn == Turn("system", "systemPrompt", FALSE, 0, FALSE)

(***************************************************************************)
(* callGroqAPI                                                             *)
(***************************************************************************)
\* mutant: the call goes to the fetch without looking at the credential
CallChecksKeyNever(v) == FALSE

\* the guard `if (!GROQ_API_KEY) return ...` exists in A and P only
CallChecksKey(v) == v \in {"A", "P"}

\* mutant: the body is built from the history as it was before the push
SentHistoryStale(v, h) ==
  IF v = "A" THEN LastN(SubSeq(h, 1, Len(h) - 1), 6) ELSE SubSeq(h, 1, Len(h) - 1)

\* the turns put into the request body after the system message
SentHistory(v, h) == IF v = "A" THEN LastN(h, 6) ELSE h

\* mutant: a non-2xx status surfaces as the raw error text
CallResultRawError(v, outcome, reply, mc) ==
  IF outcome = "ok"
    THEN [text |-> reply, ps |-> (v = "B" /\ mc >= ContactThreshold(v)), ok |-> TRUE]
  ELSE IF outcome \in {"non2xx", "non2xx_nojson"}
    THEN [text |-> "API error: 500", ps |-> FALSE, ok |-> FALSE]
  ELSE [text |-> TroubleMsg(v), ps |-> FALSE, ok |-> FALSE]

\* what callGroqAPI returns once the fetch has settled with `outcome`
CallResult(v, outcome, reply, mc) ==
  IF outcome = "ok"
    THEN [text |-> reply, ps |-> (v = "B" /\ mc >= ContactThreshold(v)), ok |-> TRUE]
  ELSE IF outcome = "nocontent"
    THEN IF v = "B" /\ mc >= ContactThreshold(v)
           THEN [text |-> UndefinedText, ps |-> TRUE, ok |-> FALSE]
           ELSE [text |-> JsUndefined, ps |-> FALSE, ok |-> FALSE]
  ELSE IF v = "A"
    THEN [text |-> TroubleMsg(v), ps |-> FALSE, ok |-> FALSE]
  ELSE IF v = "B"
    THEN [text |-> IF outcome = "non2xx" THEN OopsMsg ELSE TroubleMsg(v),
          ps |-> FALSE, ok |-> FALSE]
  ELSE [text |-> IF outcome \in {"non2xx", "non2xx_nojson"} THEN OopsMsg ELSE TroubleMsg(v),
        ps |-> FALSE, ok |-> FALSE]

Trim(v, h) == IF Len(h) > HistoryBound(v) THEN LastN(h, HistoryBound(v)) ELSE h

\* conversationHistory after the part of callGroqAPI that follows the fetch
HistoryAfterCall(v, h, outcome, res, seq, human) ==
  IF outcome \notin {"ok", "nocontent"} THEN h
  ELSE IF v = "P" THEN Trim(v, h)
  ELSE Trim(v, Append(h, Turn("assistant", res.text, res.ps, seq, human)))

\* callGroqAPI up to its first await, credential missing: nothing is touched
CallWithoutKey(text, origin) ==
  /\ lastReturn' = Returned(text, NoCredentialMsg, FALSE, FALSE, "nokey", origin)
  /\ callCount' = callCount + 1
  /\ UNCHANGED << conversationHistory, messageCount, requests, fetchCount, turnSeq >>

\* callGroqAPI up to its first await: push the user turn, count it, fetch
CallFetch(text, origin, typing, re) ==
  LET h == Append(conversationHistory,
                  Turn("user", text, FALSE, turnSeq + 1, isHumanMode))
  IN /\ conversationHistory' = h
     /\ turnSeq' = turnSeq + 1
     /\ messageCount' = messageCount + 1
     /\ requests' = Append(requests,
                           Request(origin, text, typing, re,
                                   <<SystemTurn>> \o SentHistory(variant, h)))
     /\ callCount' = callCount + 1
     /\ fetchCount' = fetchCount + 1
     /\ UNCHANGED lastReturn

\* callGroqAPI after the fetch of request i has settled
CallSettle(i, outcome, reply) ==
  LET r == requests[i]
      res == CallResult(variant, outcome, reply, messageCount)
  IN /\ conversationHistory' =
          HistoryAfterCall(variant, conversationHistory, outcome, res,
                           turnSeq + 1, isHumanMode)
     /\ turnSeq' = IF outcome \in {"ok", "nocontent"} /\ variant # "P"
                      THEN turnSeq + 1 ELSE turnSeq
     /\ requests' = SubSeq(requests, 1, i - 1) \o SubSeq(requests, i + 1, Len(requests))
     /\ lastReturn' = Returned(r.text, res.text, res.ps, TRUE, outcome, r.origin)
     /\ UNCHANGED << messageCount, callCount, fetchCount >>

\* mutant: every reply that arrives enables the input
InputAfterReplyAlways(origin, disabled) == FALSE

\* B and part_000: `chatInput.disabled = false` ends the form listener's
\* callback only; the suggestion listener's callback leaves the input alone
InputAfterReply(origin, disabled) == IF origin = "submit" THEN FALSE ELSE disabled

(***************************************************************************)
(* Timers                                                                  *)
(***************************************************************************)
\* timer i is the next callback the event loop runs
Due(i) ==
  /\ i \in 1..Len(timers)
  /\ timers[i].rem = 0
  /\ \A j \in 1..(i - 1) : timers[j].rem > 0

Without(i) == SubSeq(timers, 1, i - 1) \o SubSeq(timers, i + 1, Len(timers))

\* the time until the next pending callback is due
NextDue ==
  CHOOSE d \in {timers[i].rem : i \in 1..Len(timers)} :
    \A i \in 1..Len(timers) : d <= timers[i].rem

\* time passes until the next pending callback is due
Tick ==
  /\ timers # << >>
  /\ \A i \in 1..Len(timers) : timers[i].rem > 0
  /\ timers' = [i \in 1..Len(timers) |-> [timers[i] EXCEPT !.rem = @ - NextDue]]
  /\ UNCHANGED << variant, pace, side, GROQ_API_KEY, keyLoad, conversationHistory, messageCount,
                  isHumanMode, chatMessages, chatInputDisabled, chatSuggestions,
                  requests, nextId, turnSeq, events, callCount, fetchCount, lastReturn >>

(***************************************************************************)
(* The user                                                                *)
(***************************************************************************)
Quiet == timers = << >> /\ requests = << >>

\* whether the user submits or clicks now
MayAct ==
  IF pace = "patient" THEN events < MaxTurns /\ Quiet /\ keyLoad = "done"
  ELSE events < MaxEvents

(***************************************************************************)
(* Start-up                                                                *)
(***************************************************************************)
\* the state when init() has run: v is the script loaded, p the user's pace
WidgetStart(v, p) ==
  /\ variant = v
  /\ pace = p
  /\ GROQ_API_KEY \in (CASE v = "A" -> {""}
                         [] v = "B" -> {"gsk_const"}
                         [] OTHER -> {"", "gsk_ls"})
  /\ keyLoad = IF v = "A" THEN "pending" ELSE "done"
  /\ conversationHistory = << >>
  /\ messageCount = 0
  /\ isHumanMode = FALSE
  /\ chatMessages = << >>
  /\ chatInputDisabled = FALSE
  /\ chatSuggestions = InitialSuggestions
  /\ timers = IF v = "A"
                THEN << Timer("welcome", 10, "welcome", FALSE, 0, 0, FALSE) >>
                ELSE << >>
  /\ requests = << >>
  /\ nextId = 1
  /\ turnSeq = 0
  /\ events = 0
  /\ callCount = 0
  /\ fetchCount = 0
  /\ lastReturn = NoReturn
  /\ clearedAt = 0

\* the page around the widget when no start-up function is under study
PageAtRest ==
  /\ localStorageOK = TRUE
  /\ storedKey = << >>
  /\ hostname = "localhost"
  /\ envTxt = [status |-> "throws", lines |-> << >>]
  /\ fragments = << >>
  /\ themeToggle = TRUE
  /\ ran = "none"
  /\ runOutcome = [kind |-> "none", val |-> << >>, steps |-> << >>]
  /\ fetchedURLs = {}

\* a throttled function right after throttle(func, l) has returned it
ThrottleStart(l) ==
  /\ limit = l
  /\ inThrottle = FALSE
  /\ resetTimers = << >>
  /\ clock = 0
  /\ callLog = << >>

ThrottleUntouched == UNCHANGED << limit, inThrottle, resetTimers, clock, callLog >>

\* the contact form left alone: no field required, nothing typed
ContactAtRest ==
  /\ formInputs = << >>
  /\ requiredInputs = {}
  /\ formBtnDisabled = FALSE
  /\ debounceTimer = -1
  /\ sendTimers = << >>

ContactUntouched ==
  UNCHANGED << formInputs, requiredInputs, formBtnDisabled, debounceTimer, sendTimers >>

Start(v, p) == WidgetStart(v, p) /\ PageAtRest /\ ThrottleStart(1) /\ ContactAtRest

Init == \E v \in Variants : Start(v, "free")

\* variant A: the promise of loadAPIKey() settles
LoadAPIKeySettle ==
  /\ variant = "A"
  /\ keyLoad = "pending"
  /\ \E src \in KeySources :
       GROQ_API_KEY' = (CASE src = "env" -> "gsk_env"
                          [] src = "ls" -> "gsk_ls"
                          [] OTHER -> "")
  /\ keyLoad' = "done"
  /\ UNCHANGED << variant, pace, side, conversationHistory, messageCount, isHumanMode,
                  chatMessages, chatInputDisabled, chatSuggestions, timers,
                  requests, nextId, turnSeq, events, callCount, fetchCount, lastReturn >>

\* variant A: the welcome message scheduled by initChatbot
WelcomeA ==
  \E i \in 1..Len(timers) :
    /\ Due(i)
    /\ timers[i].kind = "welcome"
    /\ chatMessages' = Append(chatMessages,
                              Element(nextId, "bot", "text", "welcome", FALSE, 0))
    /\ nextId' = nextId + 1
    /\ timers' = Without(i)
    /\ UNCHANGED << variant, pace, side, GROQ_API_KEY, keyLoad, conversationHistory, messageCount,
                    isHumanMode, chatInputDisabled, chatSuggestions, requests,
                    turnSeq, events, callCount, fetchCount, lastReturn >>

(***************************************************************************)
(* callGroqAPI as the handlers call it                                     *)
(***************************************************************************)
CallGroqAPI(text, origin, typing, re) ==
  IF CallChecksKey(variant) /\ GROQ_API_KEY = ""
    THEN CallWithoutKey(text, origin)
    ELSE CallFetch(text, origin, typing, re)

\* TRUE when the call above returned without awaiting a fetch
ReturnsAtOnce == CallChecksKey(variant) /\ GROQ_API_KEY = ""

(***************************************************************************)
(* Variant A: src/script.js lines 712-924                                  *)
(***************************************************************************)
HumanSubmitReplyA == "Thanks for reaching out! I'm usually busy with projects"
HumanGreetingA == "Hey! It's Awais here"
AssistantGreetingA == "Hi! I'm back - Awais's AI assistant!"

\* chatForm 'submit' listener, up to the first await that suspends it
SubmitA ==
  \E text \in TypedTexts :
    LET user == nextId
        typing == nextId + 1
    IN /\ variant = "A"
       /\ ~chatInputDisabled
       /\ MayAct
       /\ events' = events + 1
       /\ nextId' = nextId + 2
       /\ chatMessages' = chatMessages \o
            << Element(user, "user", "text", text, FALSE, 0),
               Element(typing, "bot", "typing", "", FALSE, user) >>
       /\ IF isHumanMode
            THEN /\ timers' = Append(timers,
                      Timer("subRender", 8, HumanSubmitReplyA, FALSE, typing, user, FALSE))
                 /\ chatInputDisabled' = FALSE
                 /\ UNCHANGED << conversationHistory, messageCount, requests,
                                 callCount, fetchCount, turnSeq, lastReturn >>
            ELSE /\ CallGroqAPI(text, "submit", typing, user)
                 /\ IF ReturnsAtOnce
                      THEN /\ timers' = Append(timers,
                                Timer("subRender", 8, NoCredentialMsg, FALSE, typing, user, FALSE))
                           /\ chatInputDisabled' = FALSE
                      ELSE /\ chatInputDisabled' = TRUE
                           /\ UNCHANGED timers
       /\ UNCHANGED << variant, pace, side, GROQ_API_KEY, keyLoad, isHumanMode, chatSuggestions >>

\* a suggestion button's 'click' listener, up to the first await that suspends it
ClickSuggestionA ==
  \E text \in chatSuggestions :
    LET user == nextId
        typing == nextId + 1
    IN /\ variant = "A"
       /\ MayAct
       /\ events' = events + 1
       /\ nextId' = nextId + 2
       /\ chatMessages' = chatMessages \o
            << Element(user, "user", "text", text, FALSE, 0),
               Element(typing, "bot", "typing", "", FALSE, user) >>
       /\ chatSuggestions' = {}
       /\ IF text = SwitchToHuman
            THEN /\ isHumanMode' = TRUE
                 /\ timers' = Append(timers,
                      Timer("sugRender", 10, HumanGreetingA, FALSE, typing, user, FALSE))
                 /\ UNCHANGED << conversationHistory, messageCount, requests,
                                 callCount, fetchCount, turnSeq, lastReturn >>
          ELSE IF text = BackToAssistant
            THEN /\ isHumanMode' = FALSE
                 /\ timers' = Append(timers,
                      Timer("sugRender", 10, AssistantGreetingA, FALSE, typing, user, FALSE))
                 /\ UNCHANGED << conversationHistory, messageCount, requests,
                                 callCount, fetchCount, turnSeq, lastReturn >>
          ELSE /\ CallGroqAPI(text, "suggest", typing, user)
               /\ IF ReturnsAtOnce
                    THEN timers' = Append(timers,
                           Timer("sugRender", 10, NoCredentialMsg, FALSE, typing, user, FALSE))
                    ELSE UNCHANGED timers
               /\ UNCHANGED isHumanMode
       /\ UNCHANGED << variant, pace, side, GROQ_API_KEY, keyLoad, chatInputDisabled >>

\* the fetch of request i settles; callGroqAPI returns and the listener that
\* awaited it goes on to its setTimeout (and, for the form, to its finally)
SettleA ==
  \E i \in 1..Len(requests), outcome \in Outcomes, reply \in AIReplies :
    LET r == requests[i]
        res == CallResult(variant, outcome, reply, messageCount)
    IN /\ variant = "A"
       /\ CallSettle(i, outcome, reply)
       /\ IF r.origin = "submit"
            THEN /\ timers' = Append(timers,
                      Timer("subRender", 8, res.text, res.ps, r.typing, r.re, res.ok))
                 /\ chatInputDisabled' = FALSE
            ELSE /\ timers' = Append(timers,
                      Timer("sugRender", 10, res.text, res.ps, r.typing, r.re, res.ok))
                 /\ UNCHANGED chatInputDisabled
       /\ UNCHANGED << variant, pace, side, GROQ_API_KEY, keyLoad, isHumanMode, chatMessages,
                       chatSuggestions, nextId, events >>

\* the 800 ms callback of the form listener
SubRenderA ==
  \E i \in 1..Len(timers) :
    LET t == timers[i]
    IN /\ Due(i)
       /\ t.kind = "subRender"
       /\ IF t.text = JsUndefined
            \* addMessage throws at text.replace once the indicator is removed
            THEN /\ chatMessages' = RemoveById(chatMessages, t.typing)
                 /\ timers' = Without(i)
                 /\ UNCHANGED << nextId, messageCount >>
            ELSE /\ chatMessages' = Append(RemoveById(chatMessages, t.typing),
                                     Element(nextId, "bot", "text", t.text, t.ps, t.re))
                 /\ nextId' = nextId + 1
                 /\ messageCount' = messageCount + 1
                 /\ timers' = IF messageCount + 1 >= ContactThreshold(variant)
                                  /\ ~isHumanMode
                                THEN Append(Without(i),
                                       Timer("contact", 3, "contact", TRUE, 0, nextId, t.ok))
                                ELSE Without(i)
       /\ UNCHANGED << variant, pace, side, GROQ_API_KEY, keyLoad, conversationHistory, isHumanMode,
                       chatInputDisabled, chatSuggestions, requests, turnSeq, events,
                       callCount, fetchCount, lastReturn >>

\* the 300 ms callback that appends the contact suggestion
ContactA ==
  \E i \in 1..Len(timers) :
    LET t == timers[i]
    IN /\ Due(i)
       /\ t.kind = "contact"
       /\ chatMessages' = Append(chatMessages,
                                 Element(nextId, "bot", "contact", t.text, TRUE, t.re))
       /\ nextId' = nextId + 1
       /\ timers' = Without(i)
       /\ UNCHANGED << variant, pace, side, GROQ_API_KEY, keyLoad, conversationHistory, messageCount,
                       isHumanMode, chatInputDisabled, chatSuggestions, requests,
                       turnSeq, events, callCount, fetchCount, lastReturn >>

\* the 1000 ms callback of a suggestion listener
SugRenderA ==
  \E i \in 1..Len(timers) :
    LET t == timers[i]
    IN /\ Due(i)
       /\ t.kind = "sugRender"
       /\ IF t.text = JsUndefined
            \* addMessage throws at text.replace once the indicator is removed
            THEN /\ chatMessages' = RemoveById(chatMessages, t.typing)
                 /\ timers' = Without(i)
                 /\ UNCHANGED nextId
            ELSE /\ chatMessages' = Append(RemoveById(chatMessages, t.typing),
                                     Element(nextId, "bot", "text", t.text, t.ps, t.re))
                 /\ nextId' = nextId + 1
                 /\ timers' = Append(Without(i),
                                     Timer("sugRestore", 5, "", FALSE, 0, 0, FALSE))
       /\ UNCHANGED << variant, pace, side, GROQ_API_KEY, keyLoad, conversationHistory, messageCount,
                       isHumanMode, chatInputDisabled, chatSuggestions, requests,
                       turnSeq, events, callCount, fetchCount, lastReturn >>

\* the nested 500 ms callback that puts the suggestion buttons back
SugRestoreA ==
  \E i \in 1..Len(timers) :
    /\ Due(i)
    /\ timers[i].kind = "sugRestore"
    /\ chatSuggestions' = IF isHumanMode THEN HumanSuggestions(variant)
                                         ELSE AssistantSuggestions(variant)
    /\ timers' = Without(i)
    /\ UNCHANGED << variant, pace, side, GROQ_API_KEY, keyLoad, conversationHistory, messageCount,
                    isHumanMode, chatMessages, chatInputDisabled, requests, nextId,
                    turnSeq, events, callCount, fetchCount, lastReturn >>

NextA ==
  \/ LoadAPIKeySettle \/ WelcomeA \/ SubmitA \/ ClickSuggestionA \/ SettleA
  \/ SubRenderA \/ ContactA \/ SugRenderA \/ SugRestoreA

(***************************************************************************)
(* Variant B: src/script.js lines 1598-1745                                *)
(***************************************************************************)
HumanSubmitReplyB == "Thanks for reaching out! I've received your message."
HumanSuggestReplyB == "Thanks for the message! Awais is usually swamped with projects"
HumanGreetingB == "Hey! It's actually me - Awais"
AssistantGreetingB == "Hey there! I'm Awais's AI assistant."
ProjectIdeaReplyB == "That's awesome! I'd love to hear more about it."
CollaborateReplyB == "Love the energy! Collaboration is what Awais thrives on."

\* a suggestion button's 'click' listener
ClickSuggestionB ==
  \E text \in chatSuggestions :
    LET user == nextId
        typing == nextId + 1
        userEl == Element(user, "user", "text", text, FALSE, 0)
        thinkEl == Element(typing, "bot", "typing", "", FALSE, user)
    IN /\ variant = "B"
       /\ MayAct
       /\ events' = events + 1
       /\ nextId' = nextId + 2
       /\ IF text = SwitchToHuman
            THEN /\ chatMessages' = Append(chatMessages, userEl)
                 /\ timers' = Append(timers, Timer("humanSwitch", 5, "", FALSE, 0, user, FALSE))
          ELSE IF text = BackToAssistant
            THEN /\ chatMessages' = Append(chatMessages, userEl)
                 /\ timers' = Append(timers, Timer("aiSwitch", 5, "", FALSE, 0, user, FALSE))
          ELSE IF text = "Got a project idea"
            THEN /\ chatMessages' = chatMessages \o << userEl, thinkEl >>
                 /\ timers' = Append(timers,
                      Timer("canned", 15, ProjectIdeaReplyB, FALSE, typing, user, FALSE))
          ELSE IF text = "Want to collaborate?"
            THEN /\ chatMessages' = chatMessages \o << userEl, thinkEl >>
                 /\ timers' = Append(timers,
                      Timer("canned", 15, CollaborateReplyB, FALSE, typing, user, FALSE))
          ELSE IF text = "View My CV"
            THEN /\ chatMessages' = Append(chatMessages, userEl)
                 /\ UNCHANGED timers
          ELSE /\ chatMessages' = chatMessages \o << userEl, thinkEl >>
               /\ timers' = Append(timers, Timer("sugAsk", 10, text, FALSE, typing, user, FALSE))
       /\ UNCHANGED << variant, pace, side, GROQ_API_KEY, keyLoad, conversationHistory, messageCount,
                       isHumanMode, chatInputDisabled, chatSuggestions, requests,
                       turnSeq, callCount, fetchCount, lastReturn >>

\* mutant: the switch handlers reset the counter but keep the history
ResetCounterOnly ==
  /\ UNCHANGED conversationHistory
  /\ messageCount' = 0
  /\ clearedAt' = turnSeq

\* `conversationHistory = []; messageCount = 0;` of the two switch handlers
ResetConversation ==
  /\ conversationHistory' = << >>
  /\ messageCount' = 0
  /\ clearedAt' = turnSeq

\* handleHumanSwitch, run by the 500 ms timer of the click listener
HandleHumanSwitchB ==
  \E i \in 1..Len(timers) :
    /\ variant = "B"
    /\ Due(i)
    /\ timers[i].kind = "humanSwitch"
    /\ isHumanMode' = TRUE
    /\ chatMessages' = << Element(nextId, "bot", "typing", "", FALSE, timers[i].re) >>
    /\ nextId' = nextId + 1
    /\ ResetConversation
    /\ timers' = Append(Without(i),
                        Timer("greet", 15, HumanGreetingB, FALSE, nextId, timers[i].re, FALSE))
    /\ chatSuggestions' = HumanSuggestions(variant)
    /\ UNCHANGED << variant, pace, page, GROQ_API_KEY, keyLoad, chatInputDisabled, requests,
                    turnSeq, events, callCount, fetchCount, lastReturn >>

\* handleAISwitch, run by the 500 ms timer of the click listener
HandleAISwitchB ==
  \E i \in 1..Len(timers) :
    /\ variant = "B"
    /\ Due(i)
    /\ timers[i].kind = "aiSwitch"
    /\ isHumanMode' = FALSE
    /\ chatMessages' = << Element(nextId, "bot", "typing", "", FALSE, timers[i].re) >>
    /\ nextId' = nextId + 1
    /\ ResetConversation
    /\ timers' = Append(Without(i),
                        Timer("greet", 10, AssistantGreetingB, FALSE, nextId, timers[i].re, FALSE))
    /\ chatSuggestions' = AssistantSuggestions(variant)
    /\ UNCHANGED << variant, pace, page, GROQ_API_KEY, keyLoad, chatInputDisabled, requests,
                    turnSeq, events, callCount, fetchCount, lastReturn >>

\* the greeting callback of handleHumanSwitch / handleAISwitch
GreetB ==
  \E i \in 1..Len(timers) :
    LET t == timers[i]
    IN /\ variant = "B"
       /\ Due(i)
       /\ t.kind = "greet"
       /\ chatMessages' = Append(RemoveById(chatMessages, t.typing),
                                 Element(nextId, "bot", "text", t.text, FALSE, t.re))
       /\ nextId' = nextId + 1
       /\ timers' = Without(i)
       /\ UNCHANGED << variant, pace, side, GROQ_API_KEY, keyLoad, conversationHistory, messageCount,
                       isHumanMode, chatInputDisabled, chatSuggestions, requests,
                       turnSeq, events, callCount, fetchCount, lastReturn >>

\* the 1500 ms callback of the two canned human-mode suggestions
CannedB ==
  \E i \in 1..Len(timers) :
    LET t == timers[i]
    IN /\ variant = "B"
       /\ Due(i)
       /\ t.kind = "canned"
       /\ chatMessages' = Append(RemoveById(chatMessages, t.typing),
                                 Element(nextId, "bot", "text", t.text, FALSE, t.re))
       /\ nextId' = nextId + 1
       /\ timers' = Without(i)
       /\ UNCHANGED << variant, pace, side, GROQ_API_KEY, keyLoad, conversationHistory, messageCount,
                       isHumanMode, chatInputDisabled, chatSuggestions, requests,
                       turnSeq, events, callCount, fetchCount, lastReturn >>

\* the 1000 ms callback of any other suggestion, up to its await
SugAskB ==
  \E i \in 1..Len(timers) :
    LET t == timers[i]
    IN /\ variant = "B"
       /\ Due(i)
       /\ t.kind = "sugAsk"
       /\ timers' = Without(i)
       /\ IF isHumanMode
            THEN /\ chatMessages' = Append(RemoveById(chatMessages, t.typing),
                        Element(nextId, "bot", "text", HumanSuggestReplyB, FALSE, t.re))
                 /\ nextId' = nextId + 1
                 /\ UNCHANGED << conversationHistory, messageCount, requests,
                                 callCount, fetchCount, turnSeq, lastReturn >>
            ELSE /\ chatMessages' = RemoveById(chatMessages, t.typing)
                 /\ CallGroqAPI(t.text, "suggest", 0, t.re)
                 /\ UNCHANGED nextId
       /\ UNCHANGED << variant, pace, side, GROQ_API_KEY, keyLoad, isHumanMode, chatInputDisabled,
                       chatSuggestions, events >>

\* chatForm 'submit' listener
SubmitB ==
  \E text \in TypedTexts :
    LET user == nextId
        typing == nextId + 1
    IN /\ variant = "B"
       /\ ~chatInputDisabled
       /\ MayAct
       /\ events' = events + 1
       /\ nextId' = nextId + 2
       /\ chatMessages' = chatMessages \o
            << Element(user, "user", "text", text, FALSE, 0),
               Element(typing, "bot", "typing", "", FALSE, user) >>
       /\ chatInputDisabled' = TRUE
       /\ timers' = Append(timers, Timer("subAsk", 10, text, FALSE, typing, user, FALSE))
       /\ UNCHANGED << variant, pace, side, GROQ_API_KEY, keyLoad, conversationHistory, messageCount,
                       isHumanMode, chatSuggestions, requests, turnSeq, callCount, fetchCount,
                       lastReturn >>

\* the 1000 ms callback of the form listener, up to its await
SubAskB ==
  \E i \in 1..Len(timers) :
    LET t == timers[i]
    IN /\ variant = "B"
       /\ Due(i)
       /\ t.kind = "subAsk"
       /\ timers' = Without(i)
       /\ IF isHumanMode
            THEN /\ chatMessages' = Append(RemoveById(chatMessages, t.typing),
                        Element(nextId, "bot", "text", HumanSubmitReplyB, FALSE, t.re))
                 /\ nextId' = nextId + 1
                 /\ chatInputDisabled' = FALSE
                 /\ UNCHANGED << conversationHistory, messageCount, requests,
                                 callCount, fetchCount, turnSeq, lastReturn >>
            ELSE /\ chatMessages' = RemoveById(chatMessages, t.typing)
                 /\ CallGroqAPI(t.text, "submit", 0, t.re)
                 /\ UNCHANGED << nextId, chatInputDisabled >>
       /\ UNCHANGED << variant, pace, side, GROQ_API_KEY, keyLoad, isHumanMode, chatSuggestions, events >>

\* the fetch of request i settles; callGroqAPI returns and the callback that
\* awaited it appends the reply (and, for the form, re-enables the input)
SettleB ==
  \E i \in 1..Len(requests), outcome \in Outcomes, reply \in AIReplies :
    LET r == requests[i]
        res == CallResult(variant, outcome, reply, messageCount)
    IN /\ variant = "B"
       /\ CallSettle(i, outcome, reply)
       /\ chatMessages' = Append(chatMessages,
                                 Element(nextId, "bot", "text", Shown(res.text), res.ps, r.re))
       /\ nextId' = nextId + 1
       /\ chatInputDisabled' = InputAfterReply(r.origin, chatInputDisabled)
       /\ UNCHANGED << variant, pace, side, GROQ_API_KEY, keyLoad, isHumanMode, chatSuggestions,
                       timers, events >>

NextB ==
  \/ ClickSuggestionB \/ HandleHumanSwitchB \/ HandleAISwitchB \/ GreetB \/ CannedB
  \/ SugAskB \/ SubmitB \/ SubAskB \/ SettleB

(***************************************************************************)
(* Variant P: src/unnamed/part_000 lines 553-647                           *)
(***************************************************************************)
HumanGreetingP == "Hey! It's actually me - Awais. What's up?"

\* a suggestion button's 'click' listener
ClickSuggestionP ==
  \E text \in chatSuggestions :
    LET user == nextId
        typing == nextId + 1
        userEl == Element(user, "user", "text", text, FALSE, 0)
        thinkEl == Element(typing, "bot", "typing", "", FALSE, user)
    IN /\ variant = "P"
       /\ MayAct
       /\ events' = events + 1
       /\ nextId' = nextId + 2
       /\ IF text = SwitchToHuman
            THEN /\ chatMessages' = Append(chatMessages, userEl)
                 /\ timers' = Append(timers, Timer("humanSwitch", 5, "", FALSE, 0, user, FALSE))
            ELSE /\ chatMessages' = chatMessages \o << userEl, thinkEl >>
                 /\ timers' = Append(timers, Timer("sugAsk", 8, text, FALSE, typing, user, FALSE))
       /\ UNCHANGED << variant, pace, side, GROQ_API_KEY, keyLoad, conversationHistory, messageCount,
                       isHumanMode, chatInputDisabled, chatSuggestions, requests,
                       turnSeq, callCount, fetchCount, lastReturn >>

\* the 500 ms callback of 'Switch to Human'
HumanSwitchP ==
  \E i \in 1..Len(timers) :
    /\ variant = "P"
    /\ Due(i)
    /\ timers[i].kind = "humanSwitch"
    /\ isHumanMode' = TRUE
    /\ chatMessages' = Append(chatMessages,
                              Element(nextId, "bot", "text", HumanGreetingP, FALSE, timers[i].re))
    /\ nextId' = nextId + 1
    /\ timers' = Without(i)
    /\ UNCHANGED << variant, pace, side, GROQ_API_KEY, keyLoad, conversationHistory, messageCount,
                    chatInputDisabled, chatSuggestions, requests, turnSeq, events,
                    callCount, fetchCount, lastReturn >>

\* the 800 ms callback of any other suggestion, up to the first await that suspends it
SugAskP ==
  \E i \in 1..Len(timers) :
    LET t == timers[i]
    IN /\ variant = "P"
       /\ Due(i)
       /\ t.kind = "sugAsk"
       /\ timers' = Without(i)
       /\ CallGroqAPI(t.text, "suggest", 0, t.re)
       /\ IF ReturnsAtOnce
            THEN /\ chatMessages' = Append(RemoveById(chatMessages, t.typing),
                        Element(nextId, "bot", "text", NoCredentialMsg, FALSE, t.re))
                 /\ nextId' = nextId + 1
            ELSE /\ chatMessages' = RemoveById(chatMessages, t.typing)
                 /\ UNCHANGED nextId
       /\ UNCHANGED << variant, pace, side, GROQ_API_KEY, keyLoad, isHumanMode, chatInputDisabled,
                       chatSuggestions, events >>

\* chatForm 'submit' listener
SubmitP ==
  \E text \in TypedTexts :
    LET user == nextId
        typing == nextId + 1
    IN /\ variant = "P"
       /\ ~chatInputDisabled
       /\ MayAct
       /\ events' = events + 1
       /\ nextId' = nextId + 2
       /\ chatMessages' = chatMessages \o
            << Element(user, "user", "text", text, FALSE, 0),
               Element(typing, "bot", "typing", "", FALSE, user) >>
       /\ chatInputDisabled' = TRUE
       /\ timers' = Append(timers, Timer("subAsk", 8, text, FALSE, typing, user, FALSE))
       /\ UNCHANGED << variant, pace, side, GROQ_API_KEY, keyLoad, conversationHistory, messageCount,
                       isHumanMode, chatSuggestions, requests, turnSeq, callCount, fetchCount,
                       lastReturn >>

\* the 800 ms callback of the form listener, up to the first await that suspends it
SubAskP ==
  \E i \in 1..Len(timers) :
    LET t == timers[i]
    IN /\ variant = "P"
       /\ Due(i)
       /\ t.kind = "subAsk"
       /\ timers' = Without(i)
       /\ CallGroqAPI(t.text, "submit", 0, t.re)
       /\ IF ReturnsAtOnce
            THEN /\ chatMessages' = Append(RemoveById(chatMessages, t.typing),
                        Element(nextId, "bot", "text", NoCredentialMsg, FALSE, t.re))
                 /\ nextId' = nextId + 1
                 /\ chatInputDisabled' = FALSE
            ELSE /\ chatMessages' = RemoveById(chatMessages, t.typing)
                 /\ UNCHANGED << nextId, chatInputDisabled >>
       /\ UNCHANGED << variant, pace, side, GROQ_API_KEY, keyLoad, isHumanMode, chatSuggestions, events >>

\* the fetch of request i settles; callGroqAPI returns and the callback that
\* awaited it appends the reply (and, for the form, re-enables the input)
SettleP ==
  \E i \in 1..Len(requests), outcome \in Outcomes, reply \in AIReplies :
    LET r == requests[i]
        res == CallResult(variant, outcome, reply, messageCount)
    IN /\ variant = "P"
       /\ CallSettle(i, outcome, reply)
       /\ chatMessages' = Append(chatMessages,
                                 Element(nextId, "bot", "text", Shown(res.text), res.ps, r.re))
       /\ nextId' = nextId + 1
       /\ chatInputDisabled' = InputAfterReply(r.origin, chatInputDisabled)
       /\ UNCHANGED << variant, pace, side, GROQ_API_KEY, keyLoad, isHumanMode, chatSuggestions,
                       timers, events >>

NextP ==
  \/ ClickSuggestionP \/ HumanSwitchP \/ SugAskP \/ SubmitP \/ SubAskP \/ SettleP

(***************************************************************************)
(* Specification                                                           *)
(***************************************************************************)
Next == Tick \/ NextA \/ NextB \/ NextP

Spec == Init /\ [][Next]_vars

TypeOK ==
  /\ variant \in Variants
  /\ messageCount \in Nat
  /\ isHumanMode \in BOOLEAN
  /\ chatInputDisabled \in BOOLEAN
  /\ events \in Nat
  /\ pace \in {"free", "patient"}

(***************************************************************************)
(* A session of variant A in which the user only types into the chat form  *)
(* and waits for the widget to settle before the next message              *)
(***************************************************************************)
InitPatientA == Start("A", "patient")

NextPatientA ==
  \/ Tick \/ LoadAPIKeySettle \/ WelcomeA \/ SubmitA \/ SettleA \/ SubRenderA
  \/ ContactA

SpecPatientA == InitPatientA /\ [][NextPatientA]_vars

(***************************************************************************)
(* C1: whenever no callGroqAPI call is in progress, conversationHistory    *)
(* holds at most HistoryBound turns (10 in A, 12 in B and P), whatever the *)
(* outcomes of the calls were, and the turns it holds are the most recent  *)
(* ones pushed (the oldest are the ones dropped).                          *)
(***************************************************************************)
C1_HistoryWithinBound ==
  /\ requests = << >> => Len(conversationHistory) <= HistoryBound(variant)
  /\ \A i \in 1..Len(conversationHistory) :
       conversationHistory[i].seq = turnSeq - Len(conversationHistory) + i

(***************************************************************************)
(* C2: in the message list no later user message comes before the bot     *)
(* reply to an earlier user message: between any two user messages sits    *)
(* the reply to the first of them.                                         *)
(***************************************************************************)
C2_ReplyBeforeNextUserMessage ==
  \A i, j \in 1..Len(chatMessages) :
    (i < j /\ chatMessages[i].sender = "user" /\ chatMessages[j].sender = "user")
      => \E k \in (i + 1)..(j - 1) :
           /\ chatMessages[k].sender = "bot"
           /\ chatMessages[k].kind = "text"
           /\ chatMessages[k].re = chatMessages[i].id

(***************************************************************************)
(* C3: at most one completion request is outstanding, and the chat input   *)
(* is disabled whenever one is.                                            *)
(***************************************************************************)
C3_OneRequestInputDisabled ==
  /\ Len(requests) <= 1
  /\ requests # << >> => chatInputDisabled

(***************************************************************************)
(* C4: a callGroqAPI call made while GROQ_API_KEY is empty returns the     *)
(* fixed no-credential message, whatever the user message, and issues no   *)
(* fetch to the completion endpoint.                                       *)
(***************************************************************************)
C4_NoKeyNoFetch ==
  [][ (callCount' # callCount /\ GROQ_API_KEY = "")
        => /\ fetchCount' = fetchCount
           /\ requests' = requests
           /\ lastReturn'.result = NoCredentialMsg
           /\ ~lastReturn'.fetched ]_vars

\* a call without credential has returned the message and no fetch was ever issued
C4_Witness ==
  /\ GROQ_API_KEY = ""
  /\ callCount >= 1
  /\ fetchCount = 0
  /\ lastReturn.result = NoCredentialMsg
  /\ lastReturn.outcome = "nokey"

(***************************************************************************)
(* C5: when the endpoint answers a chat form submit with a non-2xx status, *)
(* callGroqAPI returns the variant's fixed fallback string, the input is   *)
(* enabled again once the listener has gone on, and that string is what is *)
(* rendered as the bot reply: appended at once in B and P, by the 800 ms   *)
(* callback in A, which appends exactly the text it was given.             *)
(***************************************************************************)
Non2xxFallback(v, outcome) ==
  CASE v = "A" -> TroubleMsg(v)
    [] v = "P" -> OopsMsg
    [] OTHER -> IF outcome = "non2xx" THEN OopsMsg ELSE TroubleMsg(v)

LastOf(s) == s[Len(s)]

C5_Non2xxFallbackAndIdle ==
  [][ /\ ( /\ Len(requests') < Len(requests)
           /\ lastReturn'.origin = "submit"
           /\ lastReturn'.outcome \in {"non2xx", "non2xx_nojson"} )
        => /\ lastReturn'.result = Non2xxFallback(variant, lastReturn'.outcome)
           /\ ~chatInputDisabled'
           /\ IF variant = "A"
                THEN /\ timers' # << >>
                     /\ LastOf(timers').kind = "subRender"
                     /\ LastOf(timers').text = lastReturn'.result
                ELSE /\ chatMessages' # << >>
                     /\ LastOf(chatMessages').sender = "bot"
                     /\ LastOf(chatMessages').kind = "text"
                     /\ LastOf(chatMessages').text = lastReturn'.result
      /\ (SubRenderA /\ \A i \in 1..Len(timers) : timers[i].text # JsUndefined)
           => \E i \in 1..Len(timers) :
                /\ Due(i)
                /\ timers[i].kind = "subRender"
                /\ LastOf(chatMessages').sender = "bot"
                /\ LastOf(chatMessages').kind = "text"
                /\ LastOf(chatMessages').text = timers[i].text
                /\ LastOf(chatMessages').re = timers[i].re ]_vars

\* a submit answered non-2xx ended with the fallback rendered and the input enabled
C5_Witness ==
  /\ lastReturn.origin = "submit"
  /\ lastReturn.outcome = "non2xx"
  /\ ~chatInputDisabled
  /\ requests = << >>
  /\ timers = << >>
  /\ chatMessages # << >>
  /\ LastOf(chatMessages).sender = "bot"
  /\ LastOf(chatMessages).text = Non2xxFallback(variant, "non2xx")

(***************************************************************************)
(* C6 as claimed: any change of isHumanMode leaves conversationHistory     *)
(* empty and messageCount 0.                                               *)
(***************************************************************************)
C6_SwitchClearsInEveryVariant ==
  [][ isHumanMode' # isHumanMode
        => (conversationHistory' = << >> /\ messageCount' = 0) ]_vars

(***************************************************************************)
(* C6 amended: in variant B any change of isHumanMode leaves               *)
(* conversationHistory empty and messageCount 0; in variant A and in       *)
(* part_000 the change leaves conversationHistory and messageCount as they *)
(* were.                                                                   *)
(***************************************************************************)
C6_SwitchClearsInBOnly ==
  [][ isHumanMode' # isHumanMode
        => IF variant = "B"
             THEN conversationHistory' = << >> /\ messageCount' = 0
             ELSE UNCHANGED << conversationHistory, messageCount >> ]_vars

\* variant B is in human mode, and turns recorded before the switch are gone
C6_Witness ==
  /\ variant = "B"
  /\ isHumanMode
  /\ turnSeq > 0
  /\ conversationHistory = << >>
  /\ messageCount = 0

(***************************************************************************)
(* C7: once 'Switch to Human' and then 'Back to Assistant Bot' have been   *)
(* clicked and every pending callback has run (the greeting of the way     *)
(* back is the last thing in the message list), the widget is in assistant *)
(* mode, shows the suggestion set it started with, 'Switch to Human'       *)
(* included, and holds no turn recorded in human mode.                     *)
(***************************************************************************)
RoundTripSettled ==
  /\ Quiet
  /\ chatMessages # << >>
  /\ LastOf(chatMessages).text \in {AssistantGreetingA, AssistantGreetingB}

C7_RoundTripRestores ==
  RoundTripSettled
    => /\ ~isHumanMode
       /\ SwitchToHuman \in chatSuggestions
       /\ chatSuggestions = InitialSuggestions
       /\ \A i \in 1..Len(conversationHistory) : ~conversationHistory[i].human

(***************************************************************************)
(* C8: after the first chat form submit of a session has been answered     *)
(* with a completion and everything it scheduled has run, messageCount     *)
(* is 1.                                                                   *)
(***************************************************************************)
C8_FirstSubmitCountsOnce ==
  ( /\ events = 1
    /\ Quiet
    /\ lastReturn.origin = "submit"
    /\ lastReturn.outcome = "ok" )
    => messageCount = 1

(***************************************************************************)
(* C9: whenever the chat input goes from disabled to enabled, the bot      *)
(* reply has been appended: it is the last element of the message list.    *)
(***************************************************************************)
C9_EnabledOnlyAfterReply ==
  [][ (chatInputDisabled /\ ~chatInputDisabled')
        => /\ chatMessages' # << >>
           /\ LastOf(chatMessages').sender = "bot"
           /\ LastOf(chatMessages').kind = "text" ]_vars

(***************************************************************************)
(* C10: in one session the contact postscript is attached to at most one   *)
(* reply.                                                                  *)
(***************************************************************************)
C10_PostscriptOnce ==
  Cardinality({i \in 1..Len(chatMessages) : chatMessages[i].ps}) <= 1

(***************************************************************************)
(* A session of variant B in which the user only types into the chat form  *)
(* and waits for the widget to settle before the next message              *)
(***************************************************************************)
InitPatientB == Start("B", "patient")

NextPatientB == Tick \/ SubmitB \/ SubAskB \/ SettleB

SpecPatientB == InitPatientB /\ [][NextPatientB]_vars

(***************************************************************************)
(* C11: every request body holds, after the system message, at most        *)
(* HistoryBound history messages (10 in A, 12 in B and P), the new user    *)
(* message included.                                                       *)
(***************************************************************************)
C11_BodyWithinBound ==
  \A i \in 1..Len(requests) :
    /\ requests[i].body[1] = SystemTurn
    /\ Len(requests[i].body) - 1 <= HistoryBound(variant)

(***************************************************************************)
(* Start-up functions: loadAPIKey, ApiConfig, initThemeToggle, init        *)
(*                                                                         *)
(* A string is a sequence of one-character strings; in env.txt the text    *)
(* GROQ_API_KEY is one element.  A key is a string, << >> the empty one.   *)
(***************************************************************************)
MaxEnvLines == 2

KEYNAME == "GROQ_API_KEY"
LocalHosts == {"localhost", "127.0.0.1"}
Hostnames == LocalHosts \cup {"muhammadawaislaal.github.io"}
RawEnvURL ==
  "https://raw.githubusercontent.com/muhammadawaislaal/My_PortFolio/main/env.txt"

\* the lines an env.txt is made of
EnvLines ==
  { << KEYNAME, "=", "v" >>,
    << KEYNAME, "=" >>,
    << KEYNAME, "=", " " >>,
    << KEYNAME, "=", "v", "=", "w" >>,
    << KEYNAME, "=", " ", "w", " " >>,
    << "#", KEYNAME, "=", "w" >>,
    << "x" >> }

RECURSIVE SeqsUpTo(_, _)
SeqsUpTo(S, n) ==
  IF n = 0 THEN { << >> }
  ELSE SeqsUpTo(S, n - 1) \cup
       { Append(s, x) : s \in { t \in SeqsUpTo(S, n - 1) : Len(t) = n - 1 }, x \in S }

\* what fetch('env.txt') is answered with
EnvResponses ==
  { [status |-> "throws", lines |-> << >>], [status |-> "notok", lines |-> << >>] }
  \cup { [status |-> "ok", lines |-> ls] : ls \in SeqsUpTo(EnvLines, MaxEnvLines) }

StoredKeys == { << >>, << "s", "k" >> }

MinOf(S) == CHOOSE x \in S : \A y \in S : x <= y

\* String.prototype.trim
RECURSIVE TrimStart(_)
TrimStart(s) == IF s # << >> /\ Head(s) = " " THEN TrimStart(Tail(s)) ELSE s
RECURSIVE TrimEnd(_)
TrimEnd(s) ==
  IF s # << >> /\ s[Len(s)] = " " THEN TrimEnd(SubSeq(s, 1, Len(s) - 1)) ELSE s
StringTrim(s) == TrimEnd(TrimStart(s))

\* line.startsWith('GROQ_API_KEY=')
StartsWithKey(line) == Len(line) >= 2 /\ line[1] = KEYNAME /\ line[2] = "="

\* line.split('=')[1], for a line that holds an '='
SplitSecond(line) ==
  LET eqs == { i \in 1..Len(line) : line[i] = "=" }
      first == MinOf(eqs)
      later == { i \in eqs : i > first }
      stop == IF later = {} THEN Len(line) + 1 ELSE MinOf(later)
  IN  SubSeq(line, first + 1, stop - 1)

\* variant A: the first line of the file that starts with GROQ_API_KEY=
KeyLinesA(lines) == { i \in 1..Len(lines) : StartsWithKey(lines[i]) }

\* variant C: where /GROQ_API_KEY=(.+)/ matches, as << line, position >>
MatchesC(lines) ==
  { m \in (1..Len(lines)) \X (1..5) :
      /\ m[2] + 2 <= Len(lines[m[1]])
      /\ lines[m[1]][m[2]] = KEYNAME
      /\ lines[m[1]][m[2] + 1] = "=" }

\* text.match(/GROQ_API_KEY=(.+)/)[1]: the leftmost match, taken up to the
\* end of its line
MatchC(lines) ==
  LET i == MinOf({ m[1] : m \in MatchesC(lines) })
      p == MinOf({ m[2] : m \in { n \in MatchesC(lines) : n[1] = i } })
  IN  SubSeq(lines[i], p + 2, Len(lines[i]))

Returned0(kind, val) == [kind |-> kind, val |-> val, steps |-> << >>]

\* loadAPIKey of variant A: env.txt first, localStorage second
loadAPIKeyA ==
  IF envTxt.status = "ok" /\ KeyLinesA(envTxt.lines) # {}
    THEN Returned0("value",
           StringTrim(SplitSecond(envTxt.lines[MinOf(KeyLinesA(envTxt.lines))])))
  ELSE IF ~localStorageOK THEN Returned0("rejected", << >>)
  ELSE IF storedKey # << >> THEN Returned0("value", storedKey)
  ELSE Returned0("null", << >>)

\* loadAPIKey of variant C: localStorage first, then env.txt from the page's
\* folder on a local host and from raw.githubusercontent.com elsewhere
loadAPIKeyC ==
  IF ~localStorageOK THEN Returned0("rejected", << >>)
  ELSE IF storedKey # << >> THEN Returned0("value", storedKey)
  ELSE IF envTxt.status = "ok" /\ MatchesC(envTxt.lines) # {}
    THEN Returned0("value", StringTrim(MatchC(envTxt.lines)))
  ELSE Returned0("null", << >>)

fetchedC ==
  IF ~localStorageOK \/ storedKey # << >> THEN {}
  ELSE IF hostname \in LocalHosts THEN {"env.txt"} ELSE {RawEnvURL}

\* loadAPIKey of part_000: localStorage only
loadAPIKeyP ==
  IF ~localStorageOK THEN Returned0("rejected", << >>)
  ELSE IF storedKey # << >> THEN Returned0("value", storedKey)
  ELSE Returned0("null", << >>)

(***************************************************************************)
(* ApiConfig                                                               *)
(***************************************************************************)
B64Alphabet ==
  << "A", "B", "C", "D", "E", "F", "G", "H", "I", "J", "K", "L", "M", "N", "O", "P",
     "Q", "R", "S", "T", "U", "V", "W", "X", "Y", "Z", "a", "b", "c", "d", "e", "f",
     "g", "h", "i", "j", "k", "l", "m", "n", "o", "p", "q", "r", "s", "t", "u", "v",
     "w", "x", "y", "z", "0", "1", "2", "3", "4", "5", "6", "7", "8", "9", "+", "/" >>

\* the characters of codes 48 ... 57, 65 ... 90 and 97 ... 122
AsciiDigits ==
  << "0", "1", "2", "3", "4", "5", "6", "7", "8", "9" >>
AsciiUpper ==
  << "A", "B", "C", "D", "E", "F", "G", "H", "I", "J", "K", "L", "M", "N", "O", "P",
     "Q", "R", "S", "T", "U", "V", "W", "X", "Y", "Z" >>
AsciiLower ==
  << "a", "b", "c", "d", "e", "f", "g", "h", "i", "j", "k", "l", "m", "n", "o", "p",
     "q", "r", "s", "t", "u", "v", "w", "x", "y", "z" >>

B64Value(c) == (CHOOSE i \in 1..64 : B64Alphabet[i] = c) - 1

\* atob drops one or two '=' that end a string of a length divisible by 4
StripPadding(s) ==
  IF Len(s) % 4 = 0 /\ Len(s) > 0 /\ s[Len(s)] = "="
    THEN IF s[Len(s) - 1] = "=" THEN SubSeq(s, 1, Len(s) - 2)
         ELSE SubSeq(s, 1, Len(s) - 1)
    ELSE s

\* whether atob(s) returns rather than throws
AtobOK(s) ==
  LET d == StripPadding(s)
  IN  /\ Len(d) % 4 # 1
      /\ \A i \in 1..Len(d) : \E j \in 1..64 : B64Alphabet[j] = d[i]

\* the k-th byte that the Base64 data d encodes
B64Byte(d, k) ==
  LET g == 4 * ((k - 1) \div 3)
      r == (k - 1) % 3
  IN  CASE r = 0 -> B64Value(d[g + 1]) * 4 + B64Value(d[g + 2]) \div 16
        [] r = 1 -> (B64Value(d[g + 2]) % 16) * 16 + B64Value(d[g + 3]) \div 4
        [] OTHER -> (B64Value(d[g + 3]) % 4) * 64 + B64Value(d[g + 4])

\* String.fromCharCode for the letters, the digits and the underscore
CharOf(byte) ==
  CASE byte >= 48 /\ byte <= 57 -> AsciiDigits[byte - 47]
    [] byte >= 65 /\ byte <= 90 -> AsciiUpper[byte - 64]
    [] byte >= 97 /\ byte <= 122 -> AsciiLower[byte - 96]
    [] byte = 95 -> "_"
    [] OTHER -> "?"

\* atob(s) for an s it accepts
Atob(s) ==
  LET d == StripPadding(s)
      n == (Len(d) * 6) \div 8
  IN  [k \in 1..n |-> CharOf(B64Byte(d, k))]

RECURSIVE Join(_)
Join(parts) == IF parts = << >> THEN << >> ELSE Head(parts) \o Join(Tail(parts))

\* the order in which the fields are joined
JoinOrderReversed(n) == [i \in 1..n |-> n + 1 - i]
JoinOrder(n) == [i \in 1..n |-> i]

\* ApiConfig.getKey over the fields _p1 ... _p12
getKey(ps) ==
  IF \A i \in 1..Len(ps) : AtobOK(ps[i])
    THEN Returned0("value", Join([i \in 1..Len(ps) |-> Atob(ps[JoinOrder(Len(ps))[i]])]))
    ELSE Returned0("null", << >>)

\* ApiConfig.init
ApiConfigInitResult ==
  IF ~localStorageOK THEN Returned0("threw", << >>)
  ELSE IF storedKey # << >> THEN Returned0("value", storedKey)
  ELSE getKey(fragments)

\* twelve sample fields for _p1 ... _p12: Base64 with two, one and no
\* padding characters
SampleFragments ==
  << << "a", "2", "V", "5", "X", "w", "=", "=" >>,
     << "Y", "Q", "=", "=" >>,
     << "Y", "m", "M", "=" >>,
     << "Z", "G", "V", "m" >>,
     << "Z", "w", "=", "=" >>,
     << "a", "G", "k", "=" >>,
     << "a", "m", "t", "s" >>,
     << "b", "Q", "=", "=" >>,
     << "b", "m", "8", "=" >>,
     << "c", "H", "F", "y" >>,
     << "c", "w", "=", "=" >>,
     << "O", "Q", "=", "=" >> >>

\* what the sample fields encode, field by field
SamplePlain ==
  << << "k", "e", "y", "_" >>,
     << "a" >>,
     << "b", "c" >>,
     << "d", "e", "f" >>,
     << "g" >>,
     << "h", "i" >>,
     << "j", "k", "l" >>,
     << "m" >>,
     << "n", "o" >>,
     << "p", "q", "r" >>,
     << "s" >>,
     << "9" >> >>

BadCharFragment == << "Y", "!", "=", "=" >>
BadLengthFragment == << "Y", "W", "J", "j", "Z" >>

\* the twelve fields, with at most one of them replaced by a string atob rejects
FragmentLists ==
  { SampleFragments }
  \cup { [SampleFragments EXCEPT ![i] = bad] :
           i \in 1..Len(SampleFragments), bad \in {BadCharFragment, BadLengthFragment} }

(***************************************************************************)
(* init() of variant A                                                     *)
(***************************************************************************)
InitSteps ==
  << "initSidebar", "initNavbar", "initThemeToggle", "initFiverrMessages",
     "initPortfolioFilter", "initContactForm", "initNavigation",
     "initSectionAnimations", "initPerformanceMonitoring", "initErrorHandling",
     "initChatbot", "initChatbotGreeting" >>

\* initThemeToggle reads localStorage once the button and its icon are found
ThemeToggleThrows == themeToggle /\ ~localStorageOK

initThemeToggleResult ==
  IF ThemeToggleThrows THEN Returned0("threw", << >>) ELSE Returned0("completed", << >>)

\* init(): the steps run in order inside one try block
initResult ==
  IF ThemeToggleThrows
    THEN [kind |-> "caught", val |-> << >>, steps |-> SubSeq(InitSteps, 1, 2)]
    ELSE [kind |-> "completed", val |-> << >>, steps |-> InitSteps]

(***************************************************************************)
(* The start-up functions as a state machine: one function is run on a     *)
(* page whose store, location, env.txt and fields are drawn at the start   *)
(***************************************************************************)
InitStartup ==
  /\ WidgetStart("A", "free")
  /\ localStorageOK \in BOOLEAN
  /\ storedKey \in StoredKeys
  /\ hostname \in Hostnames
  /\ themeToggle \in BOOLEAN
  /\ \/ envTxt \in EnvResponses /\ fragments = SampleFragments
     \/ envTxt = [status |-> "throws", lines |-> << >>] /\ fragments \in FragmentLists
  /\ ran = "none"
  /\ runOutcome = [kind |-> "none", val |-> << >>, steps |-> << >>]
  /\ fetchedURLs = {}
  /\ ThrottleStart(1)
  /\ ContactAtRest

WidgetUntouched ==
  UNCHANGED << variant, pace, GROQ_API_KEY, keyLoad, conversationHistory,
               messageCount, isHumanMode, chatMessages, chatInputDisabled,
               chatSuggestions, timers, requests, nextId, turnSeq, events,
               callCount, fetchCount, lastReturn, clearedAt >>

PageUntouched ==
  UNCHANGED << localStorageOK, storedKey, hostname, envTxt, fragments, themeToggle >>

\* the function fn runs to its end
Run(fn, result, urls) ==
  /\ ran' = fn
  /\ runOutcome' = result
  /\ fetchedURLs' = urls
  /\ PageUntouched
  /\ WidgetUntouched
  /\ ThrottleUntouched
  /\ ContactUntouched

RunLoadAPIKeyA ==
  /\ ran = "none"
  /\ Run("loadAPIKeyA", loadAPIKeyA, {"env.txt"})

RunLoadAPIKeyC ==
  /\ ran = "none"
  /\ Run("loadAPIKeyC", loadAPIKeyC, fetchedC)

RunLoadAPIKeyP ==
  /\ ran = "none"
  /\ Run("loadAPIKeyP", loadAPIKeyP, {})

RunApiConfigInit ==
  /\ ran = "none"
  /\ Run("ApiConfig.init", ApiConfigInitResult, {})

RunInitThemeToggle ==
  /\ ran = "none"
  /\ Run("initThemeToggle", initThemeToggleResult, {})

RunInit ==
  /\ ran = "none"
  /\ Run("init", initResult, {})


NextStartup ==
  \/ RunLoadAPIKeyA
  \/ RunLoadAPIKeyC
  \/ RunLoadAPIKeyP
  \/ RunApiConfigInit
  \/ RunInitThemeToggle
  \/ RunInit

SpecStartup == InitStartup /\ [][NextStartup]_vars

\* env.txt is served and holds a line that starts with GROQ_API_KEY=
EnvHasKeyLine ==
  /\ envTxt.status = "ok"
  /\ \E i \in 1..Len(envTxt.lines) : StartsWithKey(envTxt.lines[i])

Resolvers == {"loadAPIKeyA", "loadAPIKeyC", "ApiConfig.init"}

(* C12: when localStorage holds a non-empty groq_api_key and env.txt also  *)
(* supplies a GROQ_API_KEY line, the credential resolver (loadAPIKey,      *)
(* ApiConfig.init) yields the localStorage value.                          *)
C12_StoredKeyWins ==
  (ran \in Resolvers /\ localStorageOK /\ storedKey # << >> /\ EnvHasKeyLine)
    => runOutcome = Returned0("value", storedKey)

\* env.txt is served and one of its GROQ_API_KEY= lines has a value that is
\* not empty once trimmed
EnvHasUsableKey ==
  /\ envTxt.status = "ok"
  /\ \E i \in 1..Len(envTxt.lines) :
       /\ StartsWithKey(envTxt.lines[i])
       /\ StringTrim(SubSeq(envTxt.lines[i], 3, Len(envTxt.lines[i]))) # << >>

(* C13: with the store readable, loadAPIKey does not reject, and when a    *)
(* step of its chain can succeed (a stored key, or an env.txt with a       *)
(* usable non-empty value) it returns a non-empty key: a failed step hands *)
(* over to the next one, and null is returned only when every step failed. *)
C13_FailedStepFallsThrough ==
  (ran \in {"loadAPIKeyA", "loadAPIKeyC"} /\ localStorageOK)
    => /\ runOutcome.kind # "rejected"
       /\ (storedKey # << >> \/ EnvHasUsableKey)
            => (runOutcome.kind = "value" /\ runOutcome.val # << >>)

(* C14: when the key-value store is unavailable, initThemeToggle,          *)
(* loadAPIKey and ApiConfig.init complete without throwing or rejecting,   *)
(* and init() still goes on to initialise the chatbot.                     *)
C14_StoreUnavailableTolerated ==
  (ran # "none" /\ ~localStorageOK)
    => /\ runOutcome.kind \notin {"threw", "rejected", "caught"}
       /\ ran = "init" => \E i \in 1..Len(runOutcome.steps) :
                            runOutcome.steps[i] = "initChatbot"

\* the fixed texts callGroqAPI of variant v falls back to after a fetch
FallbackTexts(v) == IF v = "A" THEN {TroubleMsg(v)} ELSE {TroubleMsg(v), OopsMsg}

(* C15: for a network error, a non-2xx status, or a 2xx body that lacks    *)
(* choices[0].message.content, callGroqAPI resolves to a fixed fallback    *)
(* string, so the chat handlers always receive a text to render.           *)
C15_FailureGivesFallbackText ==
  lastReturn.outcome \in {"neterr", "non2xx", "non2xx_nojson", "badbody", "nocontent"}
    => lastReturn.result \in FallbackTexts(variant)

FailedOutcomes == {"non2xx", "non2xx_nojson", "neterr"}

FailureText(v, outcome) ==
  CASE v = "A" -> "I'm having trouble connecting right now."
    [] v = "B" /\ outcome = "non2xx" -> "Oops! Connection issue."
    [] v = "P" /\ outcome \in {"non2xx", "non2xx_nojson"} -> "Oops! Connection issue."
    [] OTHER -> "Having trouble connecting"

MaxClock == 7
MaxCalls == 4
Limits == {2, 3}

\* mutant: the flag is cleared one unit early
ResetDelayShort(l) == l - 1

\* the delay handed to setTimeout
ResetDelay(l) == l

\* the rest of the page while the throttled function is studied
ThrottleOnly ==
  /\ WidgetUntouched
  /\ PageUntouched
  /\ ContactUntouched
  /\ UNCHANGED << ran, runOutcome, fetchedURLs >>

\* a call of the function throttle returned
CallThrottled ==
  /\ Len(callLog) < MaxCalls
  /\ IF ~inThrottle
       THEN /\ callLog' = Append(callLog, [at |-> clock, ran |-> TRUE])
            /\ inThrottle' = TRUE
            /\ resetTimers' = Append(resetTimers, ResetDelay(limit))
       ELSE /\ callLog' = Append(callLog, [at |-> clock, ran |-> FALSE])
            /\ UNCHANGED << inThrottle, resetTimers >>
  /\ UNCHANGED << limit, clock >>
  /\ ThrottleOnly

\* the callback () => (inThrottle = false) of a timer whose delay has passed
ResetThrottle ==
  /\ resetTimers # << >>
  /\ Head(resetTimers) = 0
  /\ inThrottle' = FALSE
  /\ resetTimers' = Tail(resetTimers)
  /\ UNCHANGED << limit, clock, callLog >>
  /\ ThrottleOnly

\* one unit of time passes
TimePasses ==
  /\ clock < MaxClock
  /\ clock' = clock + 1
  /\ resetTimers' = [i \in 1..Len(resetTimers) |->
                       IF resetTimers[i] > 0 THEN resetTimers[i] - 1 ELSE 0]
  /\ UNCHANGED << limit, inThrottle, callLog >>
  /\ ThrottleOnly

InitThrottle ==
  /\ WidgetStart("A", "free")
  /\ PageAtRest
  /\ ContactAtRest
  /\ \E l \in Limits : ThrottleStart(l)

NextThrottle == CallThrottled \/ ResetThrottle \/ TimePasses

SpecThrottle == InitThrottle /\ [][NextThrottle]_vars

(* C18: the function throttle(func, limit) returns runs func at once on    *)
(* its first call, any two runs of func are at least limit apart, and a    *)
(* call arriving less than limit after a run does not run func.            *)
C18_ThrottleSpacing ==
  /\ callLog # << >> => callLog[1].ran
  /\ \A i, j \in 1..Len(callLog) :
       (i < j /\ callLog[i].ran /\ callLog[j].at - callLog[i].at < limit)
         => ~callLog[j].ran

\* func ran, a call inside the interval was dropped, and func ran again
\* exactly limit later
C18_Witness ==
  /\ Len(callLog) = 3
  /\ callLog[1].ran /\ ~callLog[2].ran /\ callLog[3].ran
  /\ callLog[2].at > callLog[1].at
  /\ callLog[3].at = callLog[1].at + limit

(* C19: in variant B, once a persona switch has cleared the history, the   *)
(* reply of a completion request that was in flight when the switch        *)
(* happened is not appended to the new persona's history: when the call of *)
(* a request whose user turn was recorded before the last switch returns,  *)
(* conversationHistory stays as it is.                                     *)
C19_StaleReplyNotAppended ==
  [][ \A i \in 1..Len(requests) :
        ( /\ variant = "B"
          /\ requests' = SubSeq(requests, 1, i - 1) \o SubSeq(requests, i + 1, Len(requests))
          /\ LastOf(requests[i].body).role = "user"
          /\ LastOf(requests[i].body).seq <= clearedAt )
          => conversationHistory' = conversationHistory ]_vars

(* C20: whenever no callGroqAPI call is in progress, conversationHistory   *)
(* strictly alternates user and assistant turns starting with a user turn, *)
(* every user turn being followed by the assistant turn that answers it.   *)
C20_HistoryAlternates ==
  requests = << >>
    => /\ Len(conversationHistory) % 2 = 0
       /\ \A i \in 1..Len(conversationHistory) :
            conversationHistory[i].role = IF i % 2 = 1 THEN "user" ELSE "assistant"

(* C21: a chat message submitted before the start-up loadAPIKey call has   *)
(* settled still gets the credential loadAPIKey produces: once the         *)
(* resolution has finished, a call that returned the no-credential text    *)
(* did so only in a session whose resolver found no credential.            *)
C21_EarlySubmitGetsCredential ==
  (lastReturn.outcome = "nokey" /\ keyLoad = "done") => GROQ_API_KEY = ""

(* C22: the scripted contact postscript is shown only after a successful   *)
(* completion reply and only while the persona is the assistant: the       *)
(* 300 ms callback of variant A appends it only after a reply that came    *)
(* from a successful completion and with isHumanMode false, and variant B  *)
(* attaches it only to a successful completion returned with isHumanMode   *)
(* false.                                                                  *)
C22_PostscriptOnlyAfterSuccess ==
  [][ /\ ContactA => \A i \in 1..Len(timers) :
                       (Due(i) /\ timers[i].kind = "contact")
                         => (timers[i].ok /\ ~isHumanMode)
      /\ (lastReturn' # lastReturn /\ lastReturn'.ps)
           => (lastReturn'.outcome = "ok" /\ ~isHumanMode) ]_vars

(* C23: in every request issued by callGroqAPI, under any interleaving of  *)
(* calls, the first message is the system preamble and the last message is *)
(* the user message passed to that very call.                              *)
C23_BodyFramesTheCall ==
  \A i \in 1..Len(requests) :
    /\ requests[i].body[1] = SystemTurn
    /\ Len(requests[i].body) >= 2
    /\ LastOf(requests[i].body).role = "user"
    /\ LastOf(requests[i].body).content = requests[i].text

\* two calls with different messages are in flight at once
C23_Witness ==
  /\ Len(requests) = 2
  /\ requests[1].text # requests[2].text
  /\ LastOf(requests[2].body).content = requests[2].text
  /\ Len(requests[2].body) >= 3

(* C24: while the widget is in human mode no completion request is issued: *)
(* no step taken with isHumanMode true calls callGroqAPI or issues a fetch *)
(* to the completion endpoint.                                             *)
C24_HumanModeNeverCalls ==
  [][ isHumanMode => (callCount' = callCount /\ fetchCount' = fetchCount) ]_vars

(* C25: there is no timeout on the completion request: as long as the      *)
(* fetch issued for a chat form submit has not settled, the chat input is  *)
(* disabled, whatever else happens in the meantime.                        *)
C25_HungSubmitKeepsInputDisabled ==
  \A i \in 1..Len(requests) : requests[i].origin = "submit" => chatInputDisabled

\* the request of a submit is still pending after a later suggestion click
\* has been answered
C25_Witness ==
  /\ \E i \in 1..Len(requests) : requests[i].origin = "submit"
  /\ lastReturn.origin # "submit"
  /\ lastReturn.fetched
  /\ events = 2
  /\ timers = << >>
  /\ chatInputDisabled

ControlLabels == {SwitchToHuman, BackToAssistant}
SwitchKinds == {"humanSwitch", "aiSwitch"}

\* the pending timers that will run a switch handler
PendingSwitches(ts) == { i \in 1..Len(ts) : ts[i].kind \in SwitchKinds }

\* the label of the suggestion button clicked in this step, "" when the step
\* is not a click
ClickedLabel ==
  IF /\ events' = events + 1
     /\ Len(chatMessages') > Len(chatMessages)
     /\ chatMessages'[Len(chatMessages) + 1].sender = "user"
     /\ chatMessages'[Len(chatMessages) + 1].text \in chatSuggestions
    THEN chatMessages'[Len(chatMessages) + 1].text
    ELSE ""

LoadAPIKeyRuns == {"loadAPIKeyA", "loadAPIKeyC", "loadAPIKeyP"}

(* C27: loadAPIKey fetches env.txt only when the page runs on a local      *)
(* development host, and only from the page's own origin; on any other     *)
(* host no env.txt fetch is issued.                                        *)
C27_EnvTxtOnlyOnLocalHost ==
  ran \in LoadAPIKeyRuns
    => /\ fetchedURLs \subseteq {"env.txt"}
       /\ hostname \notin LocalHosts => fetchedURLs = {}

\* what is left of a line after its first two elements, GROQ_API_KEY and '='
AfterFirstEq(line) == SubSeq(line, 3, Len(line))

(* C28: the credential taken from env.txt is the whole remainder, trimmed, *)
(* after the first '=' of the first line beginning with GROQ_API_KEY,      *)
(* further '=' included, and lines not beginning with the key name are     *)
(* ignored.  (Stated for a readable, empty store, so that the result is    *)
(* what env.txt gives, and for files whose first key line has a value.)    *)
C28_EnvValueIsWholeRemainder ==
  ( /\ ran \in {"loadAPIKeyA", "loadAPIKeyC"}
    /\ localStorageOK
    /\ storedKey = << >>
    /\ envTxt.status = "ok"
    /\ \A i \in KeyLinesA(envTxt.lines) :
         i = MinOf(KeyLinesA(envTxt.lines))
           => StringTrim(AfterFirstEq(envTxt.lines[i])) # << >> )
    => runOutcome =
         IF KeyLinesA(envTxt.lines) = {} THEN Returned0("null", << >>)
         ELSE Returned0("value",
                StringTrim(AfterFirstEq(envTxt.lines[MinOf(KeyLinesA(envTxt.lines))])))

(* C29: a callGroqAPI call made while no credential is available leaves    *)
(* conversationHistory and messageCount unchanged: the rejected user       *)
(* message is not recorded and the call does not count it as a turn.       *)
C29_NoKeyCallLeavesHistory ==
  [][ (callCount' # callCount /\ GROQ_API_KEY = "")
        => /\ conversationHistory' = conversationHistory
           /\ messageCount' = messageCount
           /\ turnSeq' = turnSeq ]_vars

\* two calls were turned away for want of a credential and nothing was recorded
C29_Witness ==
  /\ GROQ_API_KEY = ""
  /\ callCount = 2
  /\ fetchCount = 0
  /\ conversationHistory = << >>
  /\ Len(chatMessages) >= 2

(***************************************************************************)
(* Contact form: src/script.js lines 326-401.  A field is "empty", "bad"   *)
(* (a value its constraints reject) or "good"; time is counted in units of *)
(* 100 ms.                                                                 *)
(***************************************************************************)
NumInputs == 2
MaxSends == 2

FieldStates == {"empty", "bad", "good"}
DebounceDelay == 1
SendDelay == 20

\* input.checkValidity()
CheckValidity(inputs, required, i) ==
  inputs[i] = "good" \/ (inputs[i] = "empty" /\ i \notin required)

\* the value validateForm returns; it sets formBtn.disabled to the opposite
validateForm(inputs, required) ==
  \A i \in 1..Len(inputs) : CheckValidity(inputs, required, i)

\* the rest of the page while the contact form is studied
ContactOnly ==
  /\ WidgetUntouched
  /\ PageUntouched
  /\ ThrottleUntouched
  /\ UNCHANGED << ran, runOutcome, fetchedURLs >>

\* the state when initContactForm has run, its last statement being validateForm()
InitContact ==
  /\ WidgetStart("A", "free")
  /\ PageAtRest
  /\ ThrottleStart(1)
  /\ formInputs = [i \in 1..NumInputs |-> "empty"]
  /\ requiredInputs \in SUBSET (1..NumInputs)
  /\ formBtnDisabled = ~validateForm(formInputs, requiredInputs)
  /\ debounceTimer = -1
  /\ sendTimers = << >>

\* an 'input' event: the visitor edits a field, which restarts the debounce timer
EditInput ==
  \E i \in 1..NumInputs, st \in FieldStates :
    /\ st # formInputs[i]
    /\ formInputs' = [formInputs EXCEPT ![i] = st]
    /\ debounceTimer' = DebounceDelay
    /\ UNCHANGED << requiredInputs, formBtnDisabled, sendTimers >>
    /\ ContactOnly

\* the timer of debouncedValidate runs validateForm
DebouncedValidate ==
  /\ debounceTimer = 0
  /\ formBtnDisabled' = ~validateForm(formInputs, requiredInputs)
  /\ debounceTimer' = -1
  /\ UNCHANGED << formInputs, requiredInputs, sendTimers >>
  /\ ContactOnly

\* the 'submit' listener up to its await; the button must be enabled for
\* the event to occur
SubmitContact ==
  /\ ~formBtnDisabled
  /\ Len(sendTimers) < MaxSends
  /\ IF ~validateForm(formInputs, requiredInputs)
       THEN /\ formBtnDisabled' = TRUE
            /\ UNCHANGED sendTimers
       ELSE /\ formBtnDisabled' = TRUE
            /\ sendTimers' = Append(sendTimers, SendDelay)
  /\ UNCHANGED << formInputs, requiredInputs, debounceTimer >>
  /\ ContactOnly

\* the 'submit' listener after its await: form.reset(), validateForm(), and
\* the finally block, which enables the button
FinishContact ==
  /\ sendTimers # << >>
  /\ Head(sendTimers) = 0
  /\ LET afterReset == [i \in 1..NumInputs |-> "empty"]
         afterValidate == ~validateForm(afterReset, requiredInputs)
         afterFinally == FALSE
     IN /\ formInputs' = afterReset
        /\ formBtnDisabled' = afterFinally
  /\ sendTimers' = Tail(sendTimers)
  /\ UNCHANGED << requiredInputs, debounceTimer >>
  /\ ContactOnly

\* 100 ms pass; a timer that is due runs first
ContactTimePasses ==
  /\ debounceTimer # 0
  /\ \A i \in 1..Len(sendTimers) : sendTimers[i] > 0
  /\ debounceTimer >= 0 \/ sendTimers # << >>
  /\ debounceTimer' = IF debounceTimer > 0 THEN debounceTimer - 1 ELSE debounceTimer
  /\ sendTimers' = [i \in 1..Len(sendTimers) |-> sendTimers[i] - 1]
  /\ UNCHANGED << formInputs, requiredInputs, formBtnDisabled >>
  /\ ContactOnly

NextContact ==
  EditInput \/ DebouncedValidate \/ SubmitContact \/ FinishContact \/ ContactTimePasses

SpecContact == InitContact /\ [][NextContact]_vars

(* C30: after a successful contact-form submission the form is reset and   *)
(* the send button's disabled state again reflects validity: once the      *)
(* submit handler has finished, the button is disabled exactly when some   *)
(* form input is invalid.                                                  *)
C30_ButtonReflectsValidityAfterSend ==
  [][ FinishContact
        => /\ \A i \in 1..NumInputs : formInputs'[i] = "empty"
           /\ formBtnDisabled' = ~validateForm(formInputs', requiredInputs') ]_vars

====
